---- MODULE Spec2Model ----
(***************************************************************************)
(* State-machine model of grub-core/lib/gpt.c: reading, validating,        *)
(* repairing, updating and writing GUID Partition Tables.                  *)
(*                                                                         *)
(* The medium is a sequence of sectors.  A sector holds a protective MBR,  *)
(* a GPT header, one sector's worth of a partition entry array, or zeros.  *)
(* The handle (struct grub_gpt) is a record, NULL when there is none.      *)
(* Every public operation is one action; its inputs (the outcome of an     *)
(* out-of-bounds read, the point where a write stops) are drawn with \E.   *)
(*                                                                         *)
(* Assumptions of the model: the allocator never fails; the command layer  *)
(* drains the error channel (grub_print_error) between two calls, so each  *)
(* operation starts with no pending error and an empty error stack.        *)
(***************************************************************************)
EXTENDS Integers, Sequences, FiniteSets, TLC

VARIABLES
  disk,        \* the medium: [log_sector_size, size_known, sectors]
  gpt,         \* the handle (struct grub_gpt), or NULL
  grub_errno,  \* the error channel: [code, msg]
  error_stack, \* the pushed errors (grub_error_push / grub_error_pop)
  grown,       \* how many sectors the medium has grown by since Init
  writes,      \* how many calls of grub_gpt_write have written to the medium
  from_read,   \* history: the handle is as grub_gpt_read returned it
  ret          \* history: what the last operation was and what it returned

vars == <<disk, gpt, grub_errno, error_stack, grown, writes, from_read, ret>>

(***************************************************************************)
(* Bounds of the model.                                                    *)
(***************************************************************************)
\* How many sectors the medium may grow by.
MaxGrow == 1
\* How many calls of grub_gpt_write may write to the medium.
MaxWrites == 1
\* How many parts of a medium of Init are damaged.
MaxDamage == 2
\* Usable sectors between the two copies in the media of Init.
UsableSectors == 2
\* Width, in bits, the model gives grub_uint32_t in the entry-size product.
U32Bits == 20

(***************************************************************************)
(* Program constants.                                                      *)
(***************************************************************************)
\* The null handle.
NULL == [null |-> TRUE]

GRUB_DISK_SECTOR_BITS == 9
GRUB_GPT_DEFAULT_ENTRIES_SIZE == 16384
GRUB_GPT_HEADER_VERSION == 65536
GRUB_GPT_HEADER_MAGIC == <<69, 70, 73, 32, 80, 65, 82, 84>>
GRUB_PC_PARTITION_SIGNATURE == 43605
GRUB_PC_PARTITION_TYPE_GPT_DISK == 238
\* sizeof (struct grub_gpt_header)
HeaderStructSize == 92

Pow2(n) == 2 ^ n

\* A local variable of the C code: v is evaluated once and F applied to it.
With(v, F(_)) == CHOOSE y \in {F(x) : x \in {v}} : TRUE

\* The status bits of a handle.
PROTECTIVE_MBR == "PROTECTIVE_MBR"
PRIMARY_HEADER_VALID == "PRIMARY_HEADER_VALID"
PRIMARY_ENTRIES_VALID == "PRIMARY_ENTRIES_VALID"
BACKUP_HEADER_VALID == "BACKUP_HEADER_VALID"
BACKUP_ENTRIES_VALID == "BACKUP_ENTRIES_VALID"

ValidBits ==
  {PRIMARY_HEADER_VALID, PRIMARY_ENTRIES_VALID,
   BACKUP_HEADER_VALID, BACKUP_ENTRIES_VALID}

(***************************************************************************)
(* The error channel.                                                      *)
(***************************************************************************)
Err(code, msg) == [code |-> code, msg |-> msg]

GRUB_ERR_NONE == Err("NONE", "")

IsErr(e) == e.code # "NONE"

\* grub_error_push: the active error goes on the stack, the channel is reset.
grub_error_push(c) ==
  [c EXCEPT !.stack = Append(c.stack, c.errno), !.errno = GRUB_ERR_NONE]

\* grub_error_pop: the top of the stack becomes the active error again.
grub_error_pop(c) ==
  IF Len(c.stack) > 0
  THEN [c EXCEPT !.errno = c.stack[Len(c.stack)],
                 !.stack = SubSeq(c.stack, 1, Len(c.stack) - 1)]
  ELSE [c EXCEPT !.errno = GRUB_ERR_NONE]

(***************************************************************************)
(* CRC-32.  The primitive is a library dependency; it is modelled as a     *)
(* polynomial checksum over the words of the data, which depends on every  *)
(* word and on their order.                                                *)
(***************************************************************************)
CrcMod == 65521

RECURSIVE CrcFold(_, _, _)
CrcFold(words, i, acc) ==
  IF i > Len(words) THEN acc
  ELSE CrcFold(words, i + 1, (acc * 31 + words[i] + 1) % CrcMod)

grub_gpt_lecrc32(words) == With(words, LAMBDA w : CrcFold(w, 1, 17))

\* The in-memory image of a header, field by field.
HeaderWords(h) ==
  h.magic \o <<h.version, h.headersize, h.crc32, h.unused1, h.header_lba,
               h.alternate_lba, h.start, h.end, h.guid, h.partitions,
               h.maxpart, h.partentry_size, h.partentry_crc32>>

grub_gpt_header_lecrc32(h) ==
  grub_gpt_lecrc32(HeaderWords([h EXCEPT !.crc32 = 0]))

\* Lines 200-204: the header as grub_gpt_header_lecrc32 leaves it, its crc32
\* field cleared for the computation and put back.
HeaderAfterCrc(h) ==
  With(h.crc32, LAMBDA old :
    With([h EXCEPT !.crc32 = 0], LAMBDA cleared :
      [cleared EXCEPT !.crc32 = old]))

(***************************************************************************)
(* Sectors and disk I/O.                                                   *)
(***************************************************************************)
ZeroHeader ==
  [magic |-> <<0, 0, 0, 0, 0, 0, 0, 0>>, version |-> 0, headersize |-> 0,
   crc32 |-> 0, unused1 |-> 0, header_lba |-> 0, alternate_lba |-> 0,
   start |-> 0, end |-> 0, guid |-> 0, partitions |-> 0, maxpart |-> 0,
   partentry_size |-> 0, partentry_crc32 |-> 0]

ZeroMbr == [signature |-> 0, types |-> <<0, 0, 0, 0>>]

ZeroSector == [t |-> "zero"]
MbrSector(m) == [t |-> "mbr", m |-> m]
HdrSector(h) == [t |-> "hdr", h |-> h]
EntSector(v) == [t |-> "ent", v |-> v]

\* What a sector's bytes are when read into a header, an MBR or an entry array.
AsHeader(s) == IF s.t = "hdr" THEN s.h ELSE ZeroHeader
AsMbr(s) == IF s.t = "mbr" THEN s.m ELSE ZeroMbr
AsChunk(s) ==
  CASE s.t = "ent" -> s.v
    [] s.t = "hdr" -> 1000 + grub_gpt_lecrc32(HeaderWords(s.h))
    [] s.t = "mbr" -> 1000 + s.m.signature
    [] OTHER -> 0

\* disk->total_sectors of a medium whose size is known.  A medium of unknown
\* size reports the sentinel GRUB_DISK_SIZE_UNKNOWN, which no code path of the
\* library reads as a number once grub_gpt_disk_size_valid has said no.
total_sectors(d) == Len(d.sectors)

\* A sector count that, shifted to 512-byte blocks, exceeds 2^51 is unknown:
\* the sentinel does, the sector counts of the model do not.
grub_gpt_disk_size_valid(d) == d.size_known

grub_gpt_sector_to_addr(g, sector) ==
  sector * Pow2(g.log_sector_size - GRUB_DISK_SECTOR_BITS)

\* The disk's sector that holds 512-byte block addr.
AddrToSector(d, addr) == addr \div Pow2(d.log_sector_size - GRUB_DISK_SECTOR_BITS)

SectorsOfBytes(d, size) ==
  (size + Pow2(d.log_sector_size) - 1) \div Pow2(d.log_sector_size)

IoError(d) ==
  IF d.size_known
  THEN Err("OUT_OF_RANGE", "attempt to read or write outside of disk")
  ELSE Err("READ_ERROR", "failure reading sector")

\* grub_disk_read of size bytes at block addr: the sectors read, or an error.
grub_disk_read(d, addr, size) ==
  LET s == AddrToSector(d, addr)
      n == SectorsOfBytes(d, size)
  IN  IF s + n > Len(d.sectors)
      THEN [err |-> IoError(d), data |-> <<>>]
      ELSE [err |-> GRUB_ERR_NONE, data |-> [i \in 1..n |-> d.sectors[s + i]]]

(***************************************************************************)
(* Header validation.                                                      *)
(***************************************************************************)
RECURSIVE BitAnd(_, _)
BitAnd(a, b) ==
  IF a = 0 \/ b = 0 THEN 0
  ELSE (a % 2) * (b % 2) + 2 * BitAnd(a \div 2, b \div 2)

\* A test that takes every number for a power of two.
IsPow2Always(n) == TRUE

\* (n & (n - 1)) == 0 on grub_uint32_t; only called with n >= 1.
is_pow2(n) == BitAnd(n, n - 1) = 0

\* The 64-bit product of the two 32-bit fields.
grub_gpt_entries_size(h) == h.maxpart * h.partentry_size

grub_gpt_entries_sectors(h, log_sector_size) ==
  (grub_gpt_entries_size(h) + Pow2(log_sector_size) - 1)
    \div Pow2(log_sector_size)

grub_gpt_size_to_sectors(g, size) ==
  (size \div Pow2(g.log_sector_size))
    + (IF size % Pow2(g.log_sector_size) # 0 THEN 1 ELSE 0)

BadPartTable(msg) == Err("BAD_PART_TABLE", msg)

grub_gpt_header_check(h, log_sector_size) ==
  IF h.magic # GRUB_GPT_HEADER_MAGIC
    THEN BadPartTable("invalid GPT signature")
  ELSE IF h.version # GRUB_GPT_HEADER_VERSION
    THEN BadPartTable("unknown GPT version")
  ELSE IF h.crc32 # grub_gpt_header_lecrc32(h)
    THEN BadPartTable("invalid GPT header crc32")
  ELSE IF h.headersize < 92 \/ h.headersize > Pow2(log_sector_size)
    THEN BadPartTable("invalid GPT header size")
  ELSE IF \/ h.partentry_size < 128
          \/ h.partentry_size % 128 # 0
          \/ ~is_pow2(h.partentry_size \div 128)
    THEN BadPartTable("invalid GPT entry size")
  ELSE IF grub_gpt_entries_size(h) < GRUB_GPT_DEFAULT_ENTRIES_SIZE
    THEN BadPartTable("invalid GPT entry table size")
  ELSE IF h.start > h.end
    THEN BadPartTable("invalid usable sectors")
  ELSE GRUB_ERR_NONE

\* A comparison that leaves the first usable sector out.
HeadersEqualNoStart(g) ==
  /\ g.primary.headersize = g.backup.headersize
  /\ g.primary.header_lba = g.backup.alternate_lba
  /\ g.primary.alternate_lba = g.backup.header_lba
  /\ g.primary.end = g.backup.end
  /\ g.primary.maxpart = g.backup.maxpart
  /\ g.primary.partentry_size = g.backup.partentry_size
  /\ g.primary.partentry_crc32 = g.backup.partentry_crc32
  /\ g.primary.guid = g.backup.guid

grub_gpt_headers_equal(g) ==
  /\ g.primary.headersize = g.backup.headersize
  /\ g.primary.header_lba = g.backup.alternate_lba
  /\ g.primary.alternate_lba = g.backup.header_lba
  /\ g.primary.start = g.backup.start
  /\ g.primary.end = g.backup.end
  /\ g.primary.maxpart = g.backup.maxpart
  /\ g.primary.partentry_size = g.backup.partentry_size
  /\ g.primary.partentry_crc32 = g.backup.partentry_crc32
  /\ g.primary.guid = g.backup.guid

grub_gpt_check_primary(g) ==
  With(grub_gpt_header_check(g.primary, g.log_sector_size), LAMBDA hc :
    IF IsErr(hc) THEN hc
    ELSE IF g.primary.header_lba # 1
      THEN BadPartTable("invalid primary GPT LBA")
    ELSE IF \/ g.primary.partitions <= 1
            \/ g.primary.partitions
                 + grub_gpt_entries_sectors(g.primary, g.log_sector_size)
                 > g.primary.start
      THEN BadPartTable("invalid entries location")
    ELSE IF g.primary.alternate_lba <= g.primary.end
      THEN BadPartTable("invalid backup GPT LBA")
    ELSE GRUB_ERR_NONE)

\* A backup check that does not compare the backup with a valid primary.
CheckBackupNoSync(g) ==
  With(grub_gpt_header_check(g.backup, g.log_sector_size), LAMBDA hc :
    IF IsErr(hc) THEN hc
    ELSE IF g.backup.alternate_lba # 1
      THEN BadPartTable("invalid primary GPT LBA")
    ELSE IF \/ g.backup.partitions <= g.backup.end
            \/ g.backup.partitions
                 + grub_gpt_entries_sectors(g.backup, g.log_sector_size)
                 > g.backup.header_lba
      THEN BadPartTable("invalid entries location")
    ELSE IF g.backup.header_lba <= g.backup.end
      THEN BadPartTable("invalid backup GPT LBA")
    ELSE GRUB_ERR_NONE)

grub_gpt_check_backup(g) ==
  With(grub_gpt_header_check(g.backup, g.log_sector_size), LAMBDA hc :
    IF IsErr(hc) THEN hc
    ELSE IF g.backup.alternate_lba # 1
      THEN BadPartTable("invalid primary GPT LBA")
    ELSE IF \/ g.backup.partitions <= g.backup.end
            \/ g.backup.partitions
                 + grub_gpt_entries_sectors(g.backup, g.log_sector_size)
                 > g.backup.header_lba
      THEN BadPartTable("invalid entries location")
    ELSE IF g.backup.header_lba <= g.backup.end
      THEN BadPartTable("invalid backup GPT LBA")
    ELSE IF PRIMARY_HEADER_VALID \in g.status /\ ~grub_gpt_headers_equal(g)
      THEN BadPartTable("backup GPT out of sync")
    ELSE GRUB_ERR_NONE)

\* The inline helpers of gpt_partition.h.
grub_gpt_primary_valid(g) ==
  PRIMARY_HEADER_VALID \in g.status /\ PRIMARY_ENTRIES_VALID \in g.status

grub_gpt_backup_valid(g) ==
  BACKUP_HEADER_VALID \in g.status /\ BACKUP_ENTRIES_VALID \in g.status

grub_gpt_both_valid(g) == grub_gpt_primary_valid(g) /\ grub_gpt_backup_valid(g)

(***************************************************************************)
(* The reader.                                                             *)
(***************************************************************************)
\* grub_zalloc (sizeof (*gpt))
ZeroGpt ==
  [status |-> {}, log_sector_size |-> 0, mbr |-> ZeroMbr,
   primary |-> ZeroHeader, backup |-> ZeroHeader,
   entries |-> <<>>, entries_size |-> 0]

\* The loop runs i over sizeof (mbr->entries) = 64 and not over the four
\* entries: with a good signature and no 0xEE among the four, entries[4..63]
\* are read past the end of the record, and oob says whether one of those
\* bytes happened to be 0xEE.
grub_gpt_pmbr_check(mbr, oob) ==
  IF mbr.signature # GRUB_PC_PARTITION_SIGNATURE
    THEN BadPartTable("invalid MBR signature")
  ELSE IF \E i \in 1..4 : mbr.types[i] = GRUB_PC_PARTITION_TYPE_GPT_DISK
    THEN GRUB_ERR_NONE
  ELSE IF oob THEN GRUB_ERR_NONE
  ELSE BadPartTable("invalid protective MBR")

\* What the reads past the four entries can find: nothing is read there unless
\* the signature is good and none of the four is 0xEE.
PmbrOutOfBounds(mbr) ==
  IF /\ mbr.signature = GRUB_PC_PARTITION_SIGNATURE
     /\ \A i \in 1..4 : mbr.types[i] # GRUB_PC_PARTITION_TYPE_GPT_DISK
  THEN BOOLEAN ELSE {FALSE}

\* A product that does not wrap.
MulWide(a, b) == a * b

\* count * size in grub_uint32_t arithmetic.
Mul32(a, b) == (a * b) % Pow2(U32Bits)

NoEntries(e) == [err |-> e, entries |-> <<>>, entries_size |-> 0]

\* An entry reader that does not compare the array's CRC with the header's.
ReadEntriesNoCrc(d, g, header) ==
  With(Mul32(header.maxpart, header.partentry_size), LAMBDA entries_size :
    IF /\ header.partentry_size # 0
       /\ entries_size \div header.partentry_size # header.maxpart
      THEN NoEntries(Err("OUT_OF_MEMORY", "out of memory"))
    ELSE IF entries_size < GRUB_GPT_DEFAULT_ENTRIES_SIZE
      THEN NoEntries(Err("BUG", "invalid GPT entries table size"))
    ELSE
      With(grub_disk_read(d, grub_gpt_sector_to_addr(g, header.partitions),
                          entries_size), LAMBDA rd :
        IF IsErr(rd.err) THEN NoEntries(rd.err)
        ELSE [err |-> GRUB_ERR_NONE,
              entries |-> [i \in 1..Len(rd.data) |-> AsChunk(rd.data[i])],
              entries_size |-> entries_size]))

\* grub_gpt_read_entries: [err, entries, entries_size].
grub_gpt_read_entries(d, g, header) ==
  With(Mul32(header.maxpart, header.partentry_size), LAMBDA entries_size :
    IF /\ header.partentry_size # 0
       /\ entries_size \div header.partentry_size # header.maxpart
      THEN NoEntries(Err("OUT_OF_MEMORY", "out of memory"))
    ELSE IF entries_size < GRUB_GPT_DEFAULT_ENTRIES_SIZE
      THEN NoEntries(Err("BUG", "invalid GPT entries table size"))
    ELSE
      With(grub_disk_read(d, grub_gpt_sector_to_addr(g, header.partitions),
                          entries_size), LAMBDA rd :
        IF IsErr(rd.err) THEN NoEntries(rd.err)
        ELSE
          With([i \in 1..Len(rd.data) |-> AsChunk(rd.data[i])], LAMBDA entries :
            IF grub_gpt_lecrc32(entries) # header.partentry_crc32
              THEN NoEntries(BadPartTable("invalid GPT entry crc32"))
            ELSE [err |-> GRUB_ERR_NONE, entries |-> entries,
                  entries_size |-> entries_size])))

\* Lines 410-416: the primary header is valid, its entries are read.
ReadPrimaryEntries(d, g) ==
  With(grub_gpt_read_entries(d, g, g.primary), LAMBDA re :
    IF IsErr(re.err) THEN [gpt |-> g, err |-> re.err]
    ELSE [gpt |-> [g EXCEPT !.entries = re.entries,
                            !.entries_size = re.entries_size,
                            !.status = @ \cup {PRIMARY_ENTRIES_VALID}],
          err |-> GRUB_ERR_NONE])

\* A primary reader that reads the entries whatever the header check said.
ReadPrimaryUnchecked(d, g0) ==
  With([g0 EXCEPT !.log_sector_size = d.log_sector_size], LAMBDA g1 :
    With(grub_disk_read(d, grub_gpt_sector_to_addr(g1, 1), HeaderStructSize),
         LAMBDA rd :
      IF IsErr(rd.err) THEN [gpt |-> g1, err |-> rd.err]
      ELSE
        With([g1 EXCEPT !.primary = AsHeader(rd.data[1])], LAMBDA g2 :
          With(grub_gpt_check_primary(g2), LAMBDA ck :
            IF IsErr(ck) THEN ReadPrimaryEntries(d, g2)
            ELSE ReadPrimaryEntries(d,
                   [g2 EXCEPT !.status = @ \cup {PRIMARY_HEADER_VALID}])))))

\* grub_gpt_read_primary: [gpt, err].
grub_gpt_read_primary(d, g0) ==
  With([g0 EXCEPT !.log_sector_size = d.log_sector_size], LAMBDA g1 :
    With(grub_disk_read(d, grub_gpt_sector_to_addr(g1, 1), HeaderStructSize),
         LAMBDA rd :
      IF IsErr(rd.err) THEN [gpt |-> g1, err |-> rd.err]
      ELSE
        With([g1 EXCEPT !.primary = AsHeader(rd.data[1])], LAMBDA g2 :
          With(grub_gpt_check_primary(g2), LAMBDA ck :
            IF IsErr(ck) THEN [gpt |-> g2, err |-> ck]
            ELSE ReadPrimaryEntries(d,
                   [g2 EXCEPT !.status = @ \cup {PRIMARY_HEADER_VALID}])))))

\* A backup reader that looks in the last sector whenever the size is known.
BackupSectorAlwaysLast(d, g) ==
  IF grub_gpt_disk_size_valid(d)
  THEN [err |-> GRUB_ERR_NONE, sector |-> total_sectors(d) - 1]
  ELSE IF PRIMARY_HEADER_VALID \in g.status
       THEN [err |-> GRUB_ERR_NONE, sector |-> g.primary.alternate_lba]
       ELSE [err |-> Err("OUT_OF_RANGE",
                         "size of disk unknown, cannot locate backup GPT"),
             sector |-> 0]

\* Lines 428-442: the sector the backup header is looked for at, or why there
\* is none.
BackupSector(d, g) ==
  IF PRIMARY_HEADER_VALID \in g.status
  THEN IF /\ grub_gpt_disk_size_valid(d)
          /\ g.primary.alternate_lba >= total_sectors(d)
       THEN [err |-> Err("OUT_OF_RANGE",
                         "backup GPT located beyond last disk sector"),
             sector |-> 0]
       ELSE [err |-> GRUB_ERR_NONE, sector |-> g.primary.alternate_lba]
  ELSE IF grub_gpt_disk_size_valid(d)
       THEN [err |-> GRUB_ERR_NONE, sector |-> total_sectors(d) - 1]
       ELSE [err |-> Err("OUT_OF_RANGE",
                         "size of disk unknown, cannot locate backup GPT"),
             sector |-> 0]

\* A backup reader that validates the backup's entries and leaves the
\* handle's buffer as it was.
ReadBackupEntriesNoInstall(d, g) ==
  With(grub_gpt_read_entries(d, g, g.backup), LAMBDA re :
    IF IsErr(re.err) THEN [gpt |-> g, err |-> re.err]
    ELSE IF /\ PRIMARY_ENTRIES_VALID \in g.status
            /\ (re.entries_size # g.entries_size \/ re.entries # g.entries)
      THEN [gpt |-> g, err |-> BadPartTable("backup GPT out of sync")]
    ELSE [gpt |-> [g EXCEPT !.status = @ \cup {BACKUP_ENTRIES_VALID}],
          err |-> GRUB_ERR_NONE])

\* Lines 460-480: the backup header is valid, its entries are read and
\* compared with the primary's or installed.
ReadBackupEntries(d, g) ==
  With(grub_gpt_read_entries(d, g, g.backup), LAMBDA re :
    IF IsErr(re.err) THEN [gpt |-> g, err |-> re.err]
    ELSE IF PRIMARY_ENTRIES_VALID \in g.status
      THEN IF re.entries_size # g.entries_size \/ re.entries # g.entries
           THEN [gpt |-> g, err |-> BadPartTable("backup GPT out of sync")]
           ELSE [gpt |-> [g EXCEPT !.status = @ \cup {BACKUP_ENTRIES_VALID}],
                 err |-> GRUB_ERR_NONE]
    ELSE [gpt |-> [g EXCEPT !.entries = re.entries,
                            !.entries_size = re.entries_size,
                            !.status = @ \cup {BACKUP_ENTRIES_VALID}],
          err |-> GRUB_ERR_NONE])

\* Lines 447-458: the backup header read from sector and checked.
ReadBackupHeader(d, g0, sector) ==
  With(grub_disk_read(d, grub_gpt_sector_to_addr(g0, sector), HeaderStructSize),
       LAMBDA rd :
    IF IsErr(rd.err) THEN [gpt |-> g0, err |-> rd.err]
    ELSE
      With([g0 EXCEPT !.backup = AsHeader(rd.data[1])], LAMBDA g1 :
        With(grub_gpt_check_backup(g1), LAMBDA ck :
          IF IsErr(ck) THEN [gpt |-> g1, err |-> ck]
          ELSE IF g1.backup.header_lba # sector
            THEN [gpt |-> g1, err |-> BadPartTable("invalid backup GPT LBA")]
          ELSE ReadBackupEntries(d,
                 [g1 EXCEPT !.status = @ \cup {BACKUP_HEADER_VALID}]))))

\* No sector: grub_gpt_read_backup returned before its grub_disk_read.
NoSector == -1

\* grub_gpt_read_backup: [gpt, err, sector], sector the one grub_disk_read
\* was asked for.
grub_gpt_read_backup(d, g0) ==
  With(BackupSector(d, g0), LAMBDA bs :
    IF IsErr(bs.err) THEN [gpt |-> g0, err |-> bs.err, sector |-> NoSector]
    ELSE With(ReadBackupHeader(d, g0, bs.sector), LAMBDA rb :
           [gpt |-> rb.gpt, err |-> rb.err, sector |-> bs.sector]))

\* A called function that fails leaves its error in the channel.
Raise(c, e) == IF IsErr(e) THEN [c EXCEPT !.errno = e] ELSE c

NoError == [errno |-> GRUB_ERR_NONE, stack |-> <<>>]

\* A reader that does not save the primary's error across the backup attempt.
ReadBothChannelNoPush(c, perr, berr) == Raise(Raise(c, perr), berr)

\* Lines 558-566: the channel after the primary and the backup attempt.
ReadBothChannel(c, perr, berr) ==
  IF IsErr(perr)
  THEN grub_error_pop(Raise(grub_error_push(Raise(c, perr)), berr))
  ELSE Raise(c, berr)

\* Line 569: whether the reader keeps the handle.
ReadKeeps(g) == grub_gpt_primary_valid(g) \/ grub_gpt_backup_valid(g)

\* A disposition that leaves the other side's error in the channel.
ReadDispositionKeepError(g, c, perr, berr) ==
  IF ReadKeeps(g)
  THEN [gpt |-> g, c |-> c, perr |-> perr, berr |-> berr, status |-> g.status]
  ELSE [gpt |-> NULL, c |-> c, perr |-> perr, berr |-> berr,
        status |-> g.status]

\* Lines 568-578: the handle is returned with the channel cleared, or freed.
ReadDisposition(g, c, perr, berr) ==
  IF ReadKeeps(g)
  THEN [gpt |-> g, c |-> [c EXCEPT !.errno = GRUB_ERR_NONE],
        perr |-> perr, berr |-> berr, status |-> g.status]
  ELSE [gpt |-> NULL, c |-> c, perr |-> perr, berr |-> berr,
        status |-> g.status]

\* Lines 552-556: the protective MBR only decides a status bit.
ReadPmbr(g, oob) ==
  IF IsErr(grub_gpt_pmbr_check(g.mbr, oob)) THEN g
  ELSE [g EXCEPT !.status = @ \cup {PROTECTIVE_MBR}]

\* grub_gpt_read: [gpt, c, perr, berr, status, bsector]; perr and berr are
\* what the primary and the backup attempt returned, status the bits the
\* handle had when it was returned or freed, bsector the sector the backup
\* header was read from.
grub_gpt_read(d, oob) ==
  With(grub_disk_read(d, 0, 512), LAMBDA rd :
    IF IsErr(rd.err)
    THEN [gpt |-> NULL, c |-> Raise(NoError, rd.err),
          perr |-> GRUB_ERR_NONE, berr |-> GRUB_ERR_NONE, status |-> {},
          bsector |-> NoSector]
    ELSE
      With(grub_gpt_read_primary(d,
             ReadPmbr([ZeroGpt EXCEPT !.mbr = AsMbr(rd.data[1])], oob)),
           LAMBDA rp :
        With(grub_gpt_read_backup(d, rp.gpt), LAMBDA rb :
          With(ReadDisposition(rb.gpt,
                               ReadBothChannel(NoError, rp.err, rb.err),
                               rp.err, rb.err), LAMBDA r :
            [gpt |-> r.gpt, c |-> r.c, perr |-> r.perr, berr |-> r.berr,
             status |-> r.status, bsector |-> rb.sector]))))

(***************************************************************************)
(* Access to the entries.                                                  *)
(***************************************************************************)
\* grub_gpt_get_header: [header, err], header NULL when neither is valid.
grub_gpt_get_header(g) ==
  IF PRIMARY_HEADER_VALID \in g.status
    THEN [header |-> g.primary, err |-> GRUB_ERR_NONE]
  ELSE IF BACKUP_HEADER_VALID \in g.status
    THEN [header |-> g.backup, err |-> GRUB_ERR_NONE]
  ELSE [header |-> NULL, err |-> Err("BUG", "No valid GPT header")]

\* An accessor that lets the index maxpart through.
GetPartentryInclusive(g, n) ==
  With(grub_gpt_get_header(g), LAMBDA gh :
    IF gh.header = NULL THEN [entry |-> NULL, err |-> gh.err]
    ELSE IF n > gh.header.maxpart THEN [entry |-> NULL, err |-> GRUB_ERR_NONE]
    ELSE [entry |-> [offset |-> gh.header.partentry_size * n],
          err |-> GRUB_ERR_NONE])

\* grub_gpt_get_partentry: [entry, err], entry NULL or the offset of the
\* entry in gpt->entries.
grub_gpt_get_partentry(g, n) ==
  With(grub_gpt_get_header(g), LAMBDA gh :
    IF gh.header = NULL THEN [entry |-> NULL, err |-> gh.err]
    ELSE IF n >= gh.header.maxpart THEN [entry |-> NULL, err |-> GRUB_ERR_NONE]
    ELSE [entry |-> [offset |-> gh.header.partentry_size * n],
          err |-> GRUB_ERR_NONE])

(***************************************************************************)
(* The updater and the repairer.                                           *)
(***************************************************************************)
\* An updater that takes the header CRCs before it sets the sizes and the
\* entry CRC.
UpdateFieldsStaleCrc(g0) ==
  With(grub_gpt_lecrc32(g0.entries), LAMBDA crc :
    With(grub_gpt_header_lecrc32(g0.primary), LAMBDA pcrc :
      With(grub_gpt_header_lecrc32(g0.backup), LAMBDA bcrc :
        [g0 EXCEPT !.status = @ \ ValidBits,
                   !.primary.headersize = HeaderStructSize,
                   !.backup.headersize = HeaderStructSize,
                   !.primary.partentry_crc32 = crc,
                   !.backup.partentry_crc32 = crc,
                   !.primary.crc32 = pcrc,
                   !.backup.crc32 = bcrc])))

\* Lines 660-677: the bits cleared, the sizes and the three CRCs set.
UpdateFields(g0) ==
  With(grub_gpt_lecrc32(g0.entries), LAMBDA crc :
    With([g0 EXCEPT !.status = @ \ ValidBits,
                    !.primary.headersize = HeaderStructSize,
                    !.backup.headersize = HeaderStructSize,
                    !.primary.partentry_crc32 = crc,
                    !.backup.partentry_crc32 = crc], LAMBDA g1 :
      With(grub_gpt_header_lecrc32(g1.primary), LAMBDA pcrc :
        With(grub_gpt_header_lecrc32(g1.backup), LAMBDA bcrc :
          [g1 EXCEPT !.primary.crc32 = pcrc, !.backup.crc32 = bcrc]))))

\* An updater that takes the primary's bits back when the backup fails.
UpdateBackupAtomic(g, c) ==
  With(grub_gpt_check_backup(g), LAMBDA ckb :
    IF IsErr(ckb)
    THEN [gpt |-> [g EXCEPT !.status = @ \ ValidBits],
          c |-> Raise(grub_error_push(Raise(c, ckb)),
                      Err("BUG", "Generated invalid GPT backup header"))]
    ELSE [gpt |-> [g EXCEPT !.status = @ \cup {BACKUP_HEADER_VALID,
                                               BACKUP_ENTRIES_VALID}],
          c |-> c])

\* Lines 688-697: the backup checked against the primary just validated.
UpdateBackup(g, c) ==
  With(grub_gpt_check_backup(g), LAMBDA ckb :
    IF IsErr(ckb)
    THEN [gpt |-> g,
          c |-> Raise(grub_error_push(Raise(c, ckb)),
                      Err("BUG", "Generated invalid GPT backup header"))]
    ELSE [gpt |-> [g EXCEPT !.status = @ \cup {BACKUP_HEADER_VALID,
                                               BACKUP_ENTRIES_VALID}],
          c |-> c])

\* An updater that sets the four bits before it checks the headers.
UpdateBitsBeforeChecks(g0, c) ==
  With([UpdateFields(g0) EXCEPT !.status = @ \cup ValidBits], LAMBDA g :
    With(grub_gpt_check_primary(g), LAMBDA ckp :
      IF IsErr(ckp)
      THEN [gpt |-> g,
            c |-> Raise(grub_error_push(Raise(c, ckp)),
                        Err("BUG", "Generated invalid GPT primary header"))]
      ELSE UpdateBackup(g, c)))

\* grub_gpt_update: [gpt, c].
grub_gpt_update(g0, c) ==
  With(UpdateFields(g0), LAMBDA g :
    With(grub_gpt_check_primary(g), LAMBDA ckp :
      IF IsErr(ckp)
      THEN [gpt |-> g,
            c |-> Raise(grub_error_push(Raise(c, ckp)),
                        Err("BUG", "Generated invalid GPT primary header"))]
      ELSE UpdateBackup([g EXCEPT !.status = @ \cup {PRIMARY_HEADER_VALID,
                                                     PRIMARY_ENTRIES_VALID}],
                        c)))

\* A repairer that never relocates the backup header.
RepairBackupHeaderInPlace(d, g) == g.primary.alternate_lba

\* Lines 618-627: where the rebuilt backup header goes.
RepairBackupHeader(d, g) ==
  IF /\ grub_gpt_disk_size_valid(d)
     /\ total_sectors(d) - 1 > g.primary.alternate_lba
  THEN total_sectors(d) - 1
  ELSE g.primary.alternate_lba

\* Lines 611-634: the backup rebuilt from the primary.
RepairFromPrimary(d, g) ==
  With(RepairBackupHeader(d, g), LAMBDA backup_header :
    With([g.primary EXCEPT !.alternate_lba = backup_header], LAMBDA p :
      [g EXCEPT
         !.primary = p,
         !.backup = [p EXCEPT
            !.header_lba = p.alternate_lba,
            !.alternate_lba = p.header_lba,
            !.partitions =
               backup_header - grub_gpt_size_to_sectors(g, g.entries_size)]]))

\* A repairer that leaves the backup's array location in the rebuilt primary.
RepairFromBackupKeepArray(g) ==
  [g EXCEPT !.primary = [g.backup EXCEPT
                           !.header_lba = g.backup.alternate_lba,
                           !.alternate_lba = g.backup.header_lba]]

\* Lines 635-643: the primary rebuilt from the backup.
RepairFromBackup(g) ==
  [g EXCEPT !.primary = [g.backup EXCEPT
                           !.header_lba = g.backup.alternate_lba,
                           !.alternate_lba = g.backup.header_lba,
                           !.partitions = 2]]

\* Lines 647-652: the rebuilt pair goes through the updater.
RepairUpdate(g, c, path) ==
  With(grub_gpt_update(g, c), LAMBDA u :
    [gpt |-> u.gpt, c |-> u.c, path |-> path])

\* grub_gpt_repair: [gpt, c, path].
grub_gpt_repair(d, g, c) ==
  IF grub_gpt_both_valid(g)
    THEN [gpt |-> g, c |-> c, path |-> "noop"]
  ELSE IF d.log_sector_size # g.log_sector_size
    THEN [gpt |-> g, path |-> "sector_size",
          c |-> Raise(c, Err("NOT_IMPLEMENTED_YET",
                             "GPT sector size must match disk sector size"))]
  ELSE IF grub_gpt_primary_valid(g)
    THEN With(RepairFromPrimary(d, g), LAMBDA g1 : RepairUpdate(g1, c, "primary"))
  ELSE IF grub_gpt_backup_valid(g)
    THEN With(RepairFromBackup(g), LAMBDA g1 : RepairUpdate(g1, c, "backup"))
  ELSE [gpt |-> g, path |-> "none",
        c |-> Raise(c, Err("BUG", "No valid GPT"))]

(***************************************************************************)
(* The writer.                                                             *)
(***************************************************************************)
\* One grub_disk_write call: which copy, header or entries, the first sector
\* and the sectors' new contents.
WriteCall(copy, kind, sector, data) ==
  [copy |-> copy, kind |-> kind, sector |-> sector, data |-> data]

\* A table writer that writes the header and leaves the entry array out.
WriteTableHeaderOnly(d, g, header, copy) ==
  With(grub_gpt_sector_to_addr(g, header.header_lba), LAMBDA haddr :
    IF header.headersize # HeaderStructSize
      THEN [calls |-> <<>>,
            err |-> Err("NOT_IMPLEMENTED_YET", "Header size must be 92")]
    ELSE IF haddr = 0
      THEN [calls |-> <<>>,
            err |-> Err("BUG", "Refusing to write GPT header to address 0x0")]
    ELSE [calls |-> <<WriteCall(copy, "header", AddrToSector(d, haddr),
                                <<HdrSector(header)>>)>>,
          err |-> GRUB_ERR_NONE])

\* grub_gpt_write_table: the writes it issues, in order, and the error that
\* ends it (a refusal; GRUB_ERR_NONE when both writes are issued).
grub_gpt_write_table(d, g, header, copy) ==
  With(grub_gpt_sector_to_addr(g, header.header_lba), LAMBDA haddr :
    With(grub_gpt_sector_to_addr(g, header.partitions), LAMBDA eaddr :
      IF header.headersize # HeaderStructSize
        THEN [calls |-> <<>>,
              err |-> Err("NOT_IMPLEMENTED_YET", "Header size must be 92")]
      ELSE IF haddr = 0
        THEN [calls |-> <<>>,
              err |-> Err("BUG", "Refusing to write GPT header to address 0x0")]
      ELSE IF eaddr < 2
        THEN [calls |-> <<WriteCall(copy, "header", AddrToSector(d, haddr),
                                    <<HdrSector(header)>>)>>,
              err |-> Err("BUG", "Refusing to write GPT entries")]
      ELSE [calls |->
              <<WriteCall(copy, "header", AddrToSector(d, haddr),
                          <<HdrSector(header)>>),
                WriteCall(copy, "entries", AddrToSector(d, eaddr),
                          [i \in 1..Len(g.entries) |-> EntSector(g.entries[i])])>>,
            err |-> GRUB_ERR_NONE]))

\* A writer content with a valid primary.
WriteAllowedPrimaryOnly(g) == grub_gpt_primary_valid(g)

\* Line 737: what lets the writer proceed.
WriteAllowed(g) == grub_gpt_both_valid(g)

\* A writer that never skips the backup.
WriteSkipsNever(d, g) == FALSE

\* Lines 744-746: the backup lies beyond the medium and is skipped.
WriteSkipsBackup(d, g) ==
  grub_gpt_disk_size_valid(d) /\ g.backup.header_lba >= total_sectors(d)

\* A writer that writes the primary first.
WriteOrderPrimaryFirst(d, g) ==
  IF WriteSkipsBackup(d, g) THEN <<"primary">> ELSE <<"primary", "backup">>

\* Lines 740-766: the tables in the order they are written.
WriteOrder(d, g) ==
  IF WriteSkipsBackup(d, g) THEN <<"primary">> ELSE <<"backup", "primary">>

WriteHeaderOf(g, copy) == IF copy = "backup" THEN g.backup ELSE g.primary

\* The writes grub_gpt_write issues when none fails, and the error of the
\* first table that refuses.
WritePlan(d, g, order) ==
  With(grub_gpt_write_table(d, g, WriteHeaderOf(g, order[1]), order[1]),
       LAMBDA t1 :
    IF IsErr(t1.err) \/ Len(order) = 1 THEN t1
    ELSE
      With(grub_gpt_write_table(d, g, WriteHeaderOf(g, order[2]), order[2]),
           LAMBDA t2 :
        [calls |-> t1.calls \o t2.calls, err |-> t2.err]))

\* The sectors after the first n sectors of a call's data are written.
PutSectors(sectors, call, n) ==
  [k \in 1..Len(sectors) |->
     IF k - 1 >= call.sector /\ k - 1 < call.sector + n
     THEN call.data[k - call.sector]
     ELSE sectors[k]]

LogEntry(call, n) ==
  [copy |-> call.copy, kind |-> call.kind, sector |-> call.sector, n |-> n]

\* One grub_disk_write call carried out on run = [disk, err, log, cut, budget,
\* done]: budget is how many sectors are still written before the device
\* fails or the process stops (-1: neither happens).  A call that reaches
\* beyond the medium fails as a whole.
WriteStep(run, call) ==
  IF run.done THEN run
  ELSE IF call.sector + Len(call.data) > Len(run.disk.sectors)
    THEN [run EXCEPT !.err = IoError(run.disk),
                     !.log = Append(@, LogEntry(call, 0)),
                     !.done = TRUE]
  ELSE IF run.budget >= 0 /\ run.budget < Len(call.data)
    THEN [run EXCEPT !.disk.sectors = PutSectors(@, call, run.budget),
                     !.err = Err("WRITE_ERROR", "failure writing sector"),
                     !.log = Append(@, LogEntry(call, run.budget)),
                     !.cut = TRUE, !.done = TRUE]
  ELSE [run EXCEPT !.disk.sectors = PutSectors(@, call, Len(call.data)),
                   !.log = Append(@, LogEntry(call, Len(call.data))),
                   !.budget = IF @ < 0 THEN @ ELSE @ - Len(call.data)]

\* The calls of a plan carried out one after the other from call i on.
RECURSIVE WriteRun(_, _, _)
WriteRun(run, plan, i) ==
  IF i > Len(plan.calls)
    THEN IF run.done THEN run ELSE [run EXCEPT !.err = plan.err]
  ELSE With(WriteStep(run, plan.calls[i]), LAMBDA r : WriteRun(r, plan, i + 1))

\* grub_gpt_write: [disk, err, log, cut].
grub_gpt_write(d, g, budget) ==
  IF ~WriteAllowed(g)
    THEN [disk |-> d, err |-> BadPartTable("Invalid GPT data"), log |-> <<>>,
          cut |-> FALSE]
  ELSE
    With(WritePlan(d, g, WriteOrder(d, g)), LAMBDA plan :
      With(WriteRun([disk |-> d, err |-> GRUB_ERR_NONE, log |-> <<>>,
                     cut |-> FALSE, budget |-> budget, done |-> FALSE],
                    plan, 1), LAMBDA r :
        [disk |-> r.disk, err |-> r.err, log |-> r.log, cut |-> r.cut]))

(***************************************************************************)
(* The media of Init: a well-formed GPT laid out for the sector size, with *)
(* each part as written or damaged.                                        *)
(***************************************************************************)
LogSectorSizes == {9, 12}

\* Sectors of a default-size entry array.
ArraySectors(L) == GRUB_GPT_DEFAULT_ENTRIES_SIZE \div Pow2(L)

\* First usable sector: right after the primary entries, or (startv =
\* "low") a value that leaves the primary entries no room.
LayoutStart(L, startv) == IF startv = "low" THEN 3 ELSE 2 + ArraySectors(L)
LayoutEnd(L) == 2 + ArraySectors(L) + UsableSectors - 1
LayoutBackupEntries(L) == LayoutEnd(L) + 1
LayoutBackupHeader(L) == LayoutBackupEntries(L) + ArraySectors(L)

GoodEntries(L) == [i \in 1..ArraySectors(L) |-> IF i = 1 THEN 5 ELSE 0]
DamagedEntries(L) == [i \in 1..ArraySectors(L) |-> IF i <= 2 THEN 6 - i ELSE 0]

WithCrc(h) == [h EXCEPT !.crc32 = grub_gpt_header_lecrc32(h)]

GoodPrimary(L, startv) ==
  WithCrc([magic |-> GRUB_GPT_HEADER_MAGIC, version |-> GRUB_GPT_HEADER_VERSION,
           headersize |-> HeaderStructSize, crc32 |-> 0, unused1 |-> 0,
           header_lba |-> 1, alternate_lba |-> LayoutBackupHeader(L),
           start |-> LayoutStart(L, startv), end |-> LayoutEnd(L), guid |-> 7,
           partitions |-> 2, maxpart |-> 128, partentry_size |-> 128,
           partentry_crc32 |-> grub_gpt_lecrc32(GoodEntries(L))])

GoodBackup(L, startv) ==
  WithCrc([GoodPrimary(L, startv) EXCEPT
             !.header_lba = LayoutBackupHeader(L), !.alternate_lba = 1,
             !.partitions = LayoutBackupEntries(L)])

\* A header as written ("ok"), with one bit flipped after the CRC was taken
\* ("flip"), or describing another usable range under a good CRC ("desync").
HeaderVariant(h, v) ==
  CASE v = "ok" -> h
    [] v = "flip" -> [h EXCEPT !.guid = @ + 1]
    [] v = "desync" -> WithCrc([h EXCEPT !.start = @ + 1])

MbrVariant(v) ==
  CASE v = "ok" -> MbrSector([signature |-> GRUB_PC_PARTITION_SIGNATURE,
                              types |-> <<GRUB_PC_PARTITION_TYPE_GPT_DISK, 0, 0, 0>>])
    [] v = "noee" -> MbrSector([signature |-> GRUB_PC_PARTITION_SIGNATURE,
                                types |-> <<131, 0, 0, 0>>])
    [] v = "zero" -> ZeroSector

EntriesVariant(L, v) == IF v = "ok" THEN GoodEntries(L) ELSE DamagedEntries(L)

\* The medium: nsectors sectors, sector k at index k + 1.
Medium(L, mbrv, startv, phv, pev, bhv, bev, nsectors, known) ==
  LET n == ArraySectors(L)
      mbr == MbrVariant(mbrv)
      ph == HdrSector(HeaderVariant(GoodPrimary(L, startv), phv))
      bh == HdrSector(HeaderVariant(GoodBackup(L, startv), bhv))
      pe == EntriesVariant(L, pev)
      be == EntriesVariant(L, bev)
      bel == LayoutBackupEntries(L)
      bhl == LayoutBackupHeader(L)
  IN  [log_sector_size |-> L, size_known |-> known,
       sectors |->
         [k \in 1..nsectors |->
            CASE k = 1 -> mbr
              [] k = 2 -> ph
              [] k >= 3 /\ k < 3 + n -> EntSector(pe[k - 2])
              [] k >= bel + 1 /\ k < bhl + 1 -> EntSector(be[k - bel])
              [] k = bhl + 1 -> bh
              [] OTHER -> ZeroSector]]

\* The ways a medium of Init deviates from a well-formed one.
Damages ==
  {"mbr_noee", "mbr_zero", "start_low", "primary_header_flip",
   "primary_entries_bad", "backup_header_flip", "backup_header_desync",
   "backup_entries_bad", "truncated"}

DamageSets ==
  { S \in SUBSET Damages :
      /\ Cardinality(S) <= MaxDamage
      /\ ~({"mbr_noee", "mbr_zero"} \subseteq S)
      /\ ~({"backup_header_flip", "backup_header_desync"} \subseteq S) }

MediumOf(L, S, known) ==
  Medium(L,
         IF "mbr_noee" \in S THEN "noee"
         ELSE IF "mbr_zero" \in S THEN "zero" ELSE "ok",
         IF "start_low" \in S THEN "low" ELSE "std",
         IF "primary_header_flip" \in S THEN "flip" ELSE "ok",
         IF "primary_entries_bad" \in S THEN "bad" ELSE "ok",
         IF "backup_header_flip" \in S THEN "flip"
         ELSE IF "backup_header_desync" \in S THEN "desync" ELSE "ok",
         IF "backup_entries_bad" \in S THEN "bad" ELSE "ok",
         LayoutBackupHeader(L) + (IF "truncated" \in S THEN 0 ELSE 1),
         known)

\* A well-formed medium whose two headers declare the largest header size the
\* sector size allows.
LargeHeaderMedium(L, known) ==
  With(MediumOf(L, {}, known), LAMBDA d :
    [d EXCEPT
       !.sectors[2] =
          HdrSector(WithCrc([AsHeader(@) EXCEPT !.headersize = Pow2(L)])),
       !.sectors[LayoutBackupHeader(L) + 1] =
          HdrSector(WithCrc([AsHeader(@) EXCEPT !.headersize = Pow2(L)]))])

\* A well-formed medium whose table has 64 entries of 256 bytes.
WideEntriesMedium(L, known) ==
  With(MediumOf(L, {}, known), LAMBDA d :
    [d EXCEPT
       !.sectors[2] =
          HdrSector(WithCrc([AsHeader(@) EXCEPT !.maxpart = 64,
                                                !.partentry_size = 256])),
       !.sectors[LayoutBackupHeader(L) + 1] =
          HdrSector(WithCrc([AsHeader(@) EXCEPT !.maxpart = 64,
                                                !.partentry_size = 256]))])

Media ==
  { MediumOf(L, S, known) :
      L \in LogSectorSizes, S \in DamageSets, known \in BOOLEAN }
    \cup { LargeHeaderMedium(L, known) :
             L \in LogSectorSizes, known \in BOOLEAN }
    \cup { WideEntriesMedium(L, known) :
             L \in LogSectorSizes, known \in BOOLEAN }

(***************************************************************************)
(* The state machine.                                                      *)
(***************************************************************************)
Init ==
  /\ disk \in Media
  /\ gpt = NULL
  /\ grub_errno = GRUB_ERR_NONE
  /\ error_stack = <<>>
  /\ grown = 0
  /\ writes = 0
  /\ from_read = FALSE
  /\ ret = [op |-> "init"]

\* grub_gpt_read (disk); a handle held before is freed by its owner.
Read ==
  \E oob \in PmbrOutOfBounds(AsMbr(disk.sectors[1])) :
    \E r \in {grub_gpt_read(disk, oob)} :
        /\ gpt' = r.gpt
        /\ grub_errno' = r.c.errno
        /\ error_stack' = r.c.stack
        /\ from_read' = (r.gpt # NULL)
        /\ ret' = [op |-> "read", err |-> r.c.errno, perr |-> r.perr,
                   berr |-> r.berr, status |-> r.status,
                   bsector |-> r.bsector]
        /\ UNCHANGED <<disk, grown, writes>>

\* grub_gpt_repair (disk, gpt), the medium presented with sector size dlog.
Repair ==
  /\ gpt # NULL
  /\ \E dlog \in LogSectorSizes :
       \E r \in {grub_gpt_repair([disk EXCEPT !.log_sector_size = dlog], gpt,
                                 NoError)} :
           /\ gpt' = r.gpt
           /\ grub_errno' = r.c.errno
           /\ error_stack' = r.c.stack
           /\ from_read' = (from_read /\ r.gpt = gpt)
           /\ ret' = [op |-> "repair", err |-> r.c.errno, path |-> r.path,
                      dlog |-> dlog, fresh |-> from_read]
           /\ UNCHANGED <<disk, grown, writes>>

\* grub_gpt_update (gpt).
Update ==
  /\ gpt # NULL
  /\ \E r \in {grub_gpt_update(gpt, NoError)} :
         /\ gpt' = r.gpt
         /\ grub_errno' = r.c.errno
         /\ error_stack' = r.c.stack
         /\ from_read' = (from_read /\ r.gpt = gpt)
         /\ ret' = [op |-> "update", err |-> r.c.errno,
                    again |-> (ret.op = "update")]
         /\ UNCHANGED <<disk, grown, writes>>

\* Medium d holds nothing: every sector reads as zeros.
EmptyMedium(d) == \A k \in 1..Len(d.sectors) : d.sectors[k] = ZeroSector

\* The numbers of sectors after which a write may stop: at the start of each
\* grub_disk_write call and one sector into it.
RECURSIVE CallStarts(_, _, _)
CallStarts(calls, i, at) ==
  IF i > Len(calls) THEN {}
  ELSE {at} \cup (IF Len(calls[i].data) > 1 THEN {at + 1} ELSE {})
         \cup CallStarts(calls, i + 1, at + Len(calls[i].data))

WriteBudgets(d, g) ==
  IF WriteAllowed(g)
  THEN With(WritePlan(d, g, WriteOrder(d, g)).calls,
            LAMBDA calls : CallStarts(calls, 1, 0))
  ELSE {}

\* grub_gpt_write (disk, gpt): every write succeeds (budget -1), or the
\* device fails after budget sectors, or the process stops there ("crash")
\* and the handle is lost with it.
Write ==
  /\ gpt # NULL
  /\ \E budget \in {-1} \cup WriteBudgets(disk, gpt) :
       \E r \in {grub_gpt_write(disk, gpt, budget)} :
         \E crash \in (IF r.cut THEN BOOLEAN ELSE {FALSE}) :
           /\ r.log # <<>> => writes < MaxWrites
           /\ writes' = IF r.log # <<>> THEN writes + 1 ELSE writes
           /\ disk' = r.disk
           /\ gpt' = IF crash THEN NULL ELSE gpt
           /\ grub_errno' = IF crash THEN GRUB_ERR_NONE ELSE r.err
           /\ error_stack' = <<>>
           /\ from_read' = (from_read /\ ~crash)
           /\ ret' = [op |-> "write", err |-> r.err, log |-> r.log,
                      cut |-> r.cut, crash |-> crash,
                      blank |-> EmptyMedium(disk),
                      refused |-> (ret.op \in {"update", "repair"}
                                     /\ IsErr(ret.err))]
           /\ UNCHANGED grown

\* The medium is resized: one more (zeroed) sector at its end.
Grow ==
  /\ grown < MaxGrow
  /\ disk' = [disk EXCEPT !.sectors = Append(@, ZeroSector)]
  /\ grown' = grown + 1
  /\ ret' = [op |-> "grow"]
  /\ UNCHANGED <<gpt, grub_errno, error_stack, writes, from_read>>

\* The caller turns to an empty medium of the same geometry to write the
\* complete handle it holds there.
Blank ==
  /\ gpt # NULL
  /\ ValidBits \subseteq gpt.status
  /\ writes = 0
  /\ ~EmptyMedium(disk)
  /\ disk' = [disk EXCEPT !.sectors = [k \in 1..Len(@) |-> ZeroSector]]
  /\ ret' = [op |-> "blank"]
  /\ UNCHANGED <<gpt, grub_errno, error_stack, grown, writes, from_read>>

Next == Read \/ Repair \/ Update \/ Write \/ Grow

Spec == Init /\ [][Next]_vars

\* The entry indexes asked for: around the entry counts of the media.
PartIndexes == {0, 1, 63, 64, 65, 127, 128, 129}

\* grub_gpt_get_partentry (gpt, n).
GetPartentry ==
  /\ gpt # NULL
  /\ \E n \in PartIndexes :
       \E r \in {grub_gpt_get_partentry(gpt, n)} :
         /\ grub_errno' = IF IsErr(r.err) THEN r.err ELSE grub_errno
         /\ ret' = [op |-> "get_partentry", n |-> n, entry |-> r.entry,
                    err |-> r.err]
  /\ UNCHANGED <<disk, gpt, error_stack, grown, writes, from_read>>

\* A table read, repaired and updated, and its entries looked up.
EntryNext == Read \/ Repair \/ Update \/ GetPartentry

EntrySpec == Init /\ [][EntryNext]_vars

\* A table read from one medium and copied to an empty one.
CopyNext == Read \/ Repair \/ Update \/ Write \/ Blank

CopySpec == Init /\ [][CopyNext]_vars

(***************************************************************************)
(* The checks applied to inputs drawn from bounded sets: each behaviour    *)
(* draws one input and applies the function it is for.                     *)
(***************************************************************************)
HeaderSizes == {91, 92, 93, 512, 513, 4096, 4097}
EntrySizes == {0, 64, 128, 256, 384, 512}
EntryCounts == {0, 32, 64, 128}
FirstUsables == {5, 6, 7}

\* A header with the given fields, its CRC right or off by one.  The usable
\* range ends at sector 6.
InputHeader(magic_ok, version, headersize, entsize, maxpart, start, crc_ok) ==
  With([magic |-> IF magic_ok THEN GRUB_GPT_HEADER_MAGIC
                  ELSE <<69, 70, 73, 32, 80, 65, 82, 83>>,
        version |-> version, headersize |-> headersize, crc32 |-> 0,
        unused1 |-> 0, header_lba |-> 1, alternate_lba |-> 12,
        start |-> start, end |-> 6, guid |-> 7, partitions |-> 2,
        maxpart |-> maxpart, partentry_size |-> entsize,
        partentry_crc32 |-> 0], LAMBDA h :
    [h EXCEPT !.crc32 = grub_gpt_header_lecrc32(h)
                          + (IF crc_ok THEN 0 ELSE 1)])

HeaderInputs ==
  { InputHeader(magic_ok, version, headersize, partentry_size, maxpart,
                start, crc_ok) :
      magic_ok \in BOOLEAN,
      version \in {GRUB_GPT_HEADER_VERSION, 2 * GRUB_GPT_HEADER_VERSION},
      headersize \in HeaderSizes, partentry_size \in EntrySizes,
      maxpart \in EntryCounts, start \in FirstUsables,
      crc_ok \in BOOLEAN }

\* Headers for grub_gpt_write_table: where the header and the entry array go,
\* and the header size.
TableInputs ==
  { [InputHeader(TRUE, GRUB_GPT_HEADER_VERSION, headersize, 128, 128, 6, TRUE)
       EXCEPT !.header_lba = header_lba, !.partitions = partitions] :
      headersize \in {HeaderStructSize, 512}, header_lba \in 0..2,
      partitions \in 0..3 }

\* Entry counts and entry sizes for grub_gpt_read_entries: products below the
\* default table size, equal to it, above it, and at or beyond the width of
\* grub_uint32_t, where the wrapped product is 0, below the default table
\* size, or the default table size itself.
WrapCounts ==
  {0, 1, 32, 128, Pow2(U32Bits - 9), Pow2(U32Bits - 8), Pow2(U32Bits - 7),
   Pow2(U32Bits - 7) + 1, Pow2(U32Bits - 7) + 128, Pow2(U32Bits) - 1}
WrapSizes == {0, 128, 512}

\* The primary header of a well-formed medium with another entry count and
\* entry size.
EntriesInputs(L) ==
  { [GoodPrimary(L, "std") EXCEPT !.maxpart = maxpart,
                                  !.partentry_size = partentry_size] :
      maxpart \in WrapCounts, partentry_size \in WrapSizes }

ApplyInputs ==
  { [op |-> "input", fn |-> "header_check", header |-> h] :
      h \in HeaderInputs }
    \cup { [op |-> "input", fn |-> "read_entries", header |-> h] :
             h \in UNION { EntriesInputs(L) : L \in LogSectorSizes } }
    \cup { [op |-> "input", fn |-> "write_table", header |-> h,
            copy |-> copy] :
             h \in TableInputs, copy \in {"primary", "backup"} }

ApplyInit ==
  /\ disk \in { MediumOf(L, {}, TRUE) : L \in LogSectorSizes }
  /\ gpt = NULL
  /\ grub_errno = GRUB_ERR_NONE
  /\ error_stack = <<>>
  /\ grown = 0
  /\ writes = 0
  /\ from_read = FALSE
  /\ ret \in ApplyInputs

\* The header after grub_gpt_header_check: the CRC routine runs once the
\* signature and the version have passed.
HeaderAfterCheck(h) ==
  IF h.magic # GRUB_GPT_HEADER_MAGIC \/ h.version # GRUB_GPT_HEADER_VERSION
  THEN h
  ELSE HeaderAfterCrc(h)

\* grub_gpt_header_check (&header, disk->log_sector_size).
HeaderCheck ==
  /\ ret.op = "input"
  /\ ret.fn = "header_check"
  /\ \E r \in {grub_gpt_header_check(ret.header, disk.log_sector_size)} :
       /\ grub_errno' = r
       /\ ret' = [op |-> "header_check", header |-> ret.header,
                  after |-> HeaderAfterCheck(ret.header), err |-> r]
  /\ UNCHANGED <<disk, gpt, error_stack, grown, writes, from_read>>

\* The handle grub_gpt_write_table is given with the header: the sector size
\* and the entry buffer are what it uses of it.
TableHandle(d) ==
  [ZeroGpt EXCEPT !.log_sector_size = d.log_sector_size,
                  !.entries = GoodEntries(d.log_sector_size),
                  !.entries_size = GRUB_GPT_DEFAULT_ENTRIES_SIZE]

\* grub_gpt_write_table (disk, gpt, &header), no write failing.
WriteTable ==
  /\ ret.op = "input"
  /\ ret.fn = "write_table"
  /\ \E r \in {WriteRun([disk |-> disk, err |-> GRUB_ERR_NONE, log |-> <<>>,
                          cut |-> FALSE, budget |-> -1, done |-> FALSE],
                         grub_gpt_write_table(disk, TableHandle(disk),
                                              ret.header, ret.copy), 1)} :
       /\ disk' = r.disk
       /\ grub_errno' = r.err
       /\ ret' = [op |-> "write_table", header |-> ret.header,
                  err |-> r.err, log |-> r.log]
  /\ UNCHANGED <<gpt, error_stack, grown, writes, from_read>>

\* grub_gpt_read_entries (disk, gpt, &header, &entries, &entries_size);
\* computed is entries_size as line 498 leaves it.
ReadEntries ==
  /\ ret.op = "input"
  /\ ret.fn = "read_entries"
  /\ \E r \in {grub_gpt_read_entries(disk, [ZeroGpt EXCEPT !.log_sector_size =
                                                  disk.log_sector_size],
                                  ret.header)} :
       /\ grub_errno' = r.err
       /\ ret' = [op |-> "read_entries", header |-> ret.header,
                  computed |-> Mul32(ret.header.maxpart,
                                     ret.header.partentry_size),
                  err |-> r.err, entries |-> r.entries,
                  entries_size |-> r.entries_size]
  /\ UNCHANGED <<disk, gpt, error_stack, grown, writes, from_read>>

ApplyNext == HeaderCheck \/ WriteTable \/ ReadEntries

ApplySpec == ApplyInit /\ [][ApplyNext]_vars

(***************************************************************************)
(* Properties.                                                             *)
(***************************************************************************)
PrimaryBits == {PRIMARY_HEADER_VALID, PRIMARY_ENTRIES_VALID}
BackupBits == {BACKUP_HEADER_VALID, BACKUP_ENTRIES_VALID}

\* The nine equalities of mirror consistency, field by field.
MirrorConsistent(g) ==
  /\ g.primary.headersize = g.backup.headersize
  /\ g.primary.start = g.backup.start
  /\ g.primary.end = g.backup.end
  /\ g.primary.maxpart = g.backup.maxpart
  /\ g.primary.partentry_size = g.backup.partentry_size
  /\ g.primary.partentry_crc32 = g.backup.partentry_crc32
  /\ g.primary.guid = g.backup.guid
  /\ g.primary.header_lba = g.backup.alternate_lba
  /\ g.primary.alternate_lba = g.backup.header_lba

\* A handle that has read nothing of medium d yet.
BlankHandle(d) == [ZeroGpt EXCEPT !.log_sector_size = d.log_sector_size]

\* The primary copy of medium d is valid: header and entry array.
PrimaryCopyValid(d) == ~IsErr(grub_gpt_read_primary(d, ZeroGpt).err)

\* The header in sector 1 of medium d does not pass the primary's checks.
PrimaryHeaderCorrupt(d) ==
  IsErr(grub_gpt_check_primary(
          [BlankHandle(d) EXCEPT !.primary = AsHeader(d.sectors[2])]))

\* Sector s of medium d holds the header of a valid backup copy: the header
\* passes the backup's checks, names s as its own sector, and the entry array
\* it points at has the recorded CRC.
ValidBackupAt(d, s) ==
  /\ s >= 0 /\ s < Len(d.sectors)
  /\ With([BlankHandle(d) EXCEPT !.backup = AsHeader(d.sectors[s + 1])],
          LAMBDA g :
       /\ ~IsErr(grub_gpt_check_backup(g))
       /\ g.backup.header_lba = s
       /\ ~IsErr(grub_gpt_read_entries(d, g, g.backup).err))

\* The entry array the backup header in sector s of medium d points at.
BackupArrayAt(d, s) ==
  grub_gpt_read_entries(d, BlankHandle(d), AsHeader(d.sectors[s + 1])).entries

\* With a valid primary copy on medium d, the handle as it stands when the
\* header in the sector the primary names as its alternate has been read.
WithBackupHeader(d) ==
  With(grub_gpt_read_primary(d, ZeroGpt).gpt, LAMBDA g :
    [g EXCEPT !.backup = AsHeader(d.sectors[g.primary.alternate_lba + 1])])

\* Medium d has a valid primary copy and, on the medium, the sector the
\* primary names as its alternate.
PrimaryValidBackupPresent(d) ==
  /\ PrimaryCopyValid(d)
  /\ AsHeader(d.sectors[2]).alternate_lba < Len(d.sectors)

\* Medium d has a valid primary copy and a backup header that fails
\* validation.
BackupHeaderInvalid(d) ==
  /\ PrimaryValidBackupPresent(d)
  /\ IsErr(grub_gpt_check_backup(WithBackupHeader(d)))

\* Medium d has a valid primary copy and a backup header that passes every
\* check on its own, and the two are not mirror-consistent.
Desynchronised(d) ==
  /\ PrimaryValidBackupPresent(d)
  /\ With(WithBackupHeader(d), LAMBDA g :
       /\ ~IsErr(grub_gpt_check_backup([g EXCEPT !.status = {}]))
       /\ ~MirrorConsistent(g))

\* The sectors the primary copy of handle g occupies.
PrimarySectors(g) ==
  {g.primary.header_lba}
    \cup {g.primary.partitions + k : k \in 0..(Len(g.entries) - 1)}

\* In a write log every backup write comes before every primary write, and
\* the backup header before the backup entries.
BackupFirst(log) ==
  \A i, j \in DOMAIN log :
    /\ (log[i].copy = "backup" /\ log[j].copy = "primary") => i < j
    /\ (/\ log[i].copy = "backup" /\ log[j].copy = "backup"
        /\ log[i].kind = "header" /\ log[j].kind = "entries") => i < j

\* A write of the backup copy was started and the backup copy of handle g is
\* not completely on the medium.
BackupIncomplete(g, log) ==
  /\ \E i \in DOMAIN log : log[i].copy = "backup"
  /\ ~\E i \in DOMAIN log :
        /\ log[i].copy = "backup" /\ log[i].kind = "entries"
        /\ log[i].n = Len(g.entries)

\* C1: in a write on a handle with all four valid bits, every write of the
\* backup copy (header, then entries) is issued before any write of the
\* primary copy; and if a backup write fails or the process stops before the
\* backup copy is complete, the primary header sector and the primary entry
\* sectors of the medium hold what they held before the write.
C1_BackupWrittenFirst ==
  [][(ret'.op = "write" /\ ValidBits \subseteq gpt.status) =>
       /\ BackupFirst(ret'.log)
       /\ BackupIncomplete(gpt, ret'.log) =>
            \A s \in PrimarySectors(gpt) :
              disk'.sectors[s + 1] = disk.sectors[s + 1]]_vars

\* A write stopped one sector into the backup entry array.
C1_Witness ==
  /\ ret.op = "write"
  /\ ret.cut
  /\ ret.log[Len(ret.log)].copy = "backup"
  /\ ret.log[Len(ret.log)].kind = "entries"
  /\ ret.log[Len(ret.log)].n = 1

\* C2: a write on a handle that lacks any of the four valid bits returns
\* BAD_PART_TABLE ("Invalid GPT data") and writes nothing to the medium; a
\* handle with all four bits is not refused in this way.
C2_WriteNeedsAllFour ==
  [][ret'.op = "write" =>
       IF ValidBits \subseteq gpt.status
       THEN ret'.err # BadPartTable("Invalid GPT data")
       ELSE /\ ret'.err.code = "BAD_PART_TABLE"
            /\ ret'.log = <<>>
            /\ disk' = disk]_vars

\* A write refused on a handle that has the primary's two bits only.
C2_Witness ==
  /\ ret.op = "write"
  /\ ret.err = BadPartTable("Invalid GPT data")
  /\ gpt # NULL
  /\ gpt.status \cap ValidBits = PrimaryBits

\* C3: whenever both header bits of a handle are set, the two headers are
\* mirror-consistent.
C3_HeadersMirror ==
  (gpt # NULL /\ {PRIMARY_HEADER_VALID, BACKUP_HEADER_VALID} \subseteq gpt.status)
    => MirrorConsistent(gpt)

\* A repair has rebuilt the primary header from the backup and both header
\* bits are set.
C3_Witness ==
  /\ ret.op = "repair"
  /\ ret.path = "backup"
  /\ {PRIMARY_HEADER_VALID, BACKUP_HEADER_VALID} \subseteq gpt.status

\* C4: whenever an entries bit of a handle is set, the CRC of the handle's
\* entry buffer is the partentry_crc32 of a header whose header bit is set.
C4_EntriesMatchHeader ==
  (/\ gpt # NULL
   /\ gpt.status \cap {PRIMARY_ENTRIES_VALID, BACKUP_ENTRIES_VALID} # {})
    => \/ /\ PRIMARY_HEADER_VALID \in gpt.status
          /\ grub_gpt_lecrc32(gpt.entries) = gpt.primary.partentry_crc32
       \/ /\ BACKUP_HEADER_VALID \in gpt.status
          /\ grub_gpt_lecrc32(gpt.entries) = gpt.backup.partentry_crc32

\* The primary header validated, the primary entries did not, and the
\* entries were adopted from the backup.
C4_Witness ==
  /\ ret.op = "read"
  /\ gpt # NULL
  /\ PRIMARY_HEADER_VALID \in gpt.status
  /\ PRIMARY_ENTRIES_VALID \notin gpt.status
  /\ BACKUP_ENTRIES_VALID \in gpt.status

\* C5: on a medium with a valid primary copy and a backup header that fails
\* validation, read returns a handle with both primary bits set, both backup
\* bits clear, and no error in the error channel.
C5_PrimaryOnlyRead ==
  (ret.op = "read" /\ BackupHeaderInvalid(disk)) =>
    /\ gpt # NULL
    /\ gpt.status \cap ValidBits = PrimaryBits
    /\ grub_errno = GRUB_ERR_NONE
    /\ error_stack = <<>>

\* A read of a medium whose backup header has one bit flipped.
C5_Witness ==
  /\ ret.op = "read"
  /\ BackupHeaderInvalid(disk)
  /\ ret.berr = BadPartTable("invalid GPT header crc32")
  /\ gpt # NULL

\* What C6 promises of the handle a read of the medium returned: both backup
\* bits, the buffer holding the entry array of the backup in sector s, and no
\* error in the channel.
BackupInstalled(s) ==
  /\ gpt # NULL
  /\ BackupBits \subseteq gpt.status
  /\ gpt.entries = BackupArrayAt(disk, s)
  /\ grub_errno = GRUB_ERR_NONE
  /\ error_stack = <<>>

\* C6 (as amended): on a medium of known size with a corrupted primary header
\* and a valid backup copy whose header is in the last sector, read returns a
\* handle with both backup bits set, the entry buffer installed from the
\* backup's entry array, and no error in the error channel; on a medium of
\* unknown size with a corrupted primary header read returns no handle and
\* reports the primary's error.
C6_BackupOnlyRead ==
  (ret.op = "read" /\ PrimaryHeaderCorrupt(disk)) =>
    /\ (/\ grub_gpt_disk_size_valid(disk)
        /\ ValidBackupAt(disk, total_sectors(disk) - 1))
         => BackupInstalled(total_sectors(disk) - 1)
    /\ ~grub_gpt_disk_size_valid(disk)
         => (gpt = NULL /\ grub_errno = ret.perr /\ IsErr(ret.perr))

\* A read of a medium of known size whose primary header is corrupted and
\* whose last sector holds the header of a valid backup copy.
C6_Witness ==
  /\ ret.op = "read"
  /\ PrimaryHeaderCorrupt(disk)
  /\ grub_gpt_disk_size_valid(disk)
  /\ ValidBackupAt(disk, total_sectors(disk) - 1)
  /\ gpt # NULL
  /\ PRIMARY_HEADER_VALID \notin gpt.status

\* C6 as stated: on any medium with a corrupted primary header and a valid
\* backup copy, read returns a handle with both backup bits set, the entry
\* buffer installed from the backup's entry array, and no error.
C6_AsStated ==
  (ret.op = "read" /\ PrimaryHeaderCorrupt(disk)) =>
    \A s \in 0..(Len(disk.sectors) - 1) :
      ValidBackupAt(disk, s) => BackupInstalled(s)

\* C7: read returns a handle exactly when a copy is fully valid; when neither
\* is, it returns none and the error in the channel is the one the primary
\* attempt raised, not the backup attempt's.
C7_ReadDisposition ==
  ret.op = "read" =>
    /\ gpt # NULL <=> (PrimaryBits \subseteq ret.status
                        \/ BackupBits \subseteq ret.status)
    /\ gpt # NULL => gpt.status = ret.status
    /\ gpt = NULL => /\ IsErr(ret.perr)
                     /\ grub_errno = ret.perr
                     /\ error_stack = <<>>

\* A read that found neither copy valid, the two attempts failing with
\* different errors.
C7_Witness ==
  /\ ret.op = "read"
  /\ gpt = NULL
  /\ IsErr(ret.berr)
  /\ ret.berr # ret.perr

\* C8 (as amended): when primary and backup each pass their own checks and
\* are not mirror-consistent, read returns a handle with both primary bits
\* set and both backup bits clear and leaves no error in the channel; "backup
\* GPT out of sync" is the error of the backup attempt, which read clears.
C8_OutOfSyncRead ==
  (ret.op = "read" /\ Desynchronised(disk)) =>
    /\ gpt # NULL
    /\ gpt.status \cap ValidBits = PrimaryBits
    /\ ret.berr = BadPartTable("backup GPT out of sync")
    /\ grub_errno = GRUB_ERR_NONE
    /\ error_stack = <<>>

\* A read of a medium whose backup header names another first usable sector
\* than the primary.
C8_Witness ==
  /\ ret.op = "read"
  /\ Desynchronised(disk)
  /\ gpt # NULL
  /\ gpt.primary.start # gpt.backup.start

\* C8 as stated: in that case read fails with "backup GPT out of sync", the
\* primary bits set and the backup bits clear.
C8_AsStated ==
  (ret.op = "read" /\ Desynchronised(disk)) =>
    /\ grub_errno = BadPartTable("backup GPT out of sync")
    /\ ret.status \cap ValidBits = PrimaryBits

\* C9: for a handle as read returned it, with exactly one copy fully valid,
\* repair on the same medium with the same sector size returns success and
\* leaves all four valid bits set.
C9_RepairCompletes ==
  (/\ ret.op = "repair"
   /\ ret.fresh
   /\ ret.dlog = disk.log_sector_size
   /\ ret.path \in {"primary", "backup"})
    => (ret.err = GRUB_ERR_NONE /\ ValidBits \subseteq gpt.status)

\* ceil (size / 2^log_sector_size)
CeilSectors(size, log_sector_size) ==
  (size + Pow2(log_sector_size) - 1) \div Pow2(log_sector_size)

\* Where C10 puts the backup header for handle g on medium d.
RelocatedBackup(d, g) ==
  IF grub_gpt_disk_size_valid(d) /\ total_sectors(d) - 1 > g.primary.alternate_lba
  THEN total_sectors(d) - 1
  ELSE g.primary.alternate_lba

\* Header h with the fields repair sets in a rebuilt backup, and the header
\* CRC, blanked.
SameButPlace(h) ==
  [h EXCEPT !.header_lba = 0, !.alternate_lba = 0, !.partitions = 0,
            !.crc32 = 0]

\* C10: in repair with the primary authoritative, primary.alternate_lba
\* becomes total_sectors - 1 if the size is known and total_sectors - 1 is
\* greater, and is unchanged otherwise (always when the size is unknown); the
\* backup header becomes a copy of the primary with header_lba =
\* primary.alternate_lba, alternate_lba = primary.header_lba and partitions =
\* backup_header - ceil (entries_size / sector_size).
C10_RepairFromPrimary ==
  [][(ret'.op = "repair" /\ ret'.path = "primary") =>
       /\ gpt'.primary.alternate_lba = RelocatedBackup(disk, gpt)
       /\ gpt'.primary.header_lba = gpt.primary.header_lba
       /\ SameButPlace(gpt'.backup) = SameButPlace(gpt'.primary)
       /\ gpt'.backup.header_lba = gpt'.primary.alternate_lba
       /\ gpt'.backup.alternate_lba = gpt'.primary.header_lba
       /\ gpt'.backup.partitions =
            RelocatedBackup(disk, gpt)
              - CeilSectors(gpt.entries_size, gpt.log_sector_size)]_vars

\* A repair from the primary on a medium of known size that has grown: the
\* backup header has moved to the new last sector.
C10_Witness ==
  /\ ret.op = "repair"
  /\ ret.path = "primary"
  /\ grown = 1
  /\ grub_gpt_disk_size_valid(disk)
  /\ writes = 0
  /\ AsHeader(disk.sectors[2]).alternate_lba < total_sectors(disk) - 1
  /\ gpt.primary.alternate_lba = total_sectors(disk) - 1
  /\ gpt.backup.header_lba = total_sectors(disk) - 1
  /\ ValidBits \subseteq gpt.status

\* The fields of a header that do not say where a copy lies.
NonLocationFields ==
  {"guid", "start", "end", "maxpart", "partentry_size", "partentry_crc32"}

\* C11: in repair with the backup authoritative, the primary header becomes a
\* copy of the backup with header_lba = backup.alternate_lba, alternate_lba =
\* backup.header_lba and partitions = 2, and after the repair the primary
\* equals the backup's mirror in every non-location field.
C11_RepairFromBackup ==
  [][(ret'.op = "repair" /\ ret'.path = "backup") =>
       /\ gpt'.primary.header_lba = gpt.backup.alternate_lba
       /\ gpt'.primary.alternate_lba = gpt.backup.header_lba
       /\ gpt'.primary.partitions = 2
       /\ gpt'.backup.header_lba = gpt.backup.header_lba
       /\ gpt'.backup.alternate_lba = gpt.backup.alternate_lba
       /\ gpt'.backup.partitions = gpt.backup.partitions
       /\ SameButPlace(gpt'.primary) = SameButPlace(gpt'.backup)
       /\ \A f \in NonLocationFields :
            /\ gpt'.primary[f] = gpt'.backup[f]
            /\ gpt'.primary[f] = gpt.backup[f]]_vars

\* A repair from the backup of a handle read from a medium whose primary
\* header is corrupt: the primary is rebuilt at sector 1 with its array at
\* sector 2, away from the backup's array.
C11_Witness ==
  /\ ret.op = "repair"
  /\ ret.path = "backup"
  /\ ret.fresh
  /\ writes = 0
  /\ PrimaryHeaderCorrupt(disk)
  /\ gpt.primary.header_lba = 1
  /\ gpt.primary.partitions = 2
  /\ gpt.backup.partitions > 2
  /\ gpt.primary.guid = gpt.backup.guid
  /\ ValidBits \subseteq gpt.status

\* A handle that read returned with both copies valid, on a medium of known
\* size that has grown since the table was laid out.
GrownBothValid ==
  /\ gpt # NULL
  /\ from_read
  /\ grown > 0
  /\ grub_gpt_disk_size_valid(disk)
  /\ ValidBits \subseteq gpt.status
  /\ gpt.primary.alternate_lba < total_sectors(disk) - 1

\* C12: for a medium with a valid primary and a valid backup that has since
\* grown, read followed by repair makes primary.alternate_lba total_sectors
\* - 1 and reconstructs the backup with header_lba total_sectors - 1 and
\* partitions = total_sectors - 1 - ceil (entries_size / sector_size).
C12_GrownRepairRelocates ==
  [][(GrownBothValid /\ ret'.op = "repair"
       /\ ret'.dlog = gpt.log_sector_size) =>
       /\ gpt'.primary.alternate_lba = total_sectors(disk) - 1
       /\ gpt'.backup.header_lba = total_sectors(disk) - 1
       /\ gpt'.backup.partitions =
            total_sectors(disk) - 1
              - CeilSectors(gpt.entries_size, gpt.log_sector_size)]_vars

\* What grub_gpt_repair does there: read found the backup where
\* primary.alternate_lba says, both copies are valid and the repair returns
\* at line 603 with neither header changed; the backup moves only when it is
\* rebuilt from the primary.
C12_GrownRepairIsNoop ==
  [][/\ (GrownBothValid /\ ret'.op = "repair") =>
          /\ ret'.path = "noop"
          /\ ret'.err = GRUB_ERR_NONE
          /\ gpt' = gpt
          /\ gpt'.backup.header_lba < total_sectors(disk) - 1
     /\ (/\ ret'.op = "repair"
         /\ gpt'.backup.header_lba # gpt.backup.header_lba) =>
          /\ ret'.path = "primary"
          /\ gpt'.backup.header_lba = RelocatedBackup(disk, gpt)]_vars

\* Read and then repair on a grown medium with both copies valid: nothing
\* was done, and the backup header is not in the last sector.
C12_Witness ==
  /\ ret.op = "repair"
  /\ ret.path = "noop"
  /\ ret.fresh
  /\ ret.err = GRUB_ERR_NONE
  /\ grown = 1
  /\ writes = 0
  /\ grub_gpt_disk_size_valid(disk)
  /\ ValidBits \subseteq gpt.status
  /\ gpt.primary.alternate_lba < total_sectors(disk) - 1
  /\ gpt.backup.header_lba = gpt.primary.alternate_lba
  /\ ValidBackupAt(disk, gpt.backup.header_lba)

\* C13 as stated: when update returns, either all four valid bits are set
\* (success) or none of them is (failure); only one side's bits are never
\* left set.
C13_UpdateAtomic ==
  [][ret'.op = "update" =>
       IF ret'.err = GRUB_ERR_NONE
       THEN ValidBits \subseteq gpt'.status
       ELSE gpt'.status \cap ValidBits = {}]_vars

\* C13: update returns success with all four valid bits set, or BUG
\* "Generated invalid GPT primary header" with none of them set, or BUG
\* "Generated invalid GPT backup header" with exactly the two primary bits
\* set; the backup's bits are never set without the primary's, and the
\* PROTECTIVE_MBR bit is as it was.
C13_UpdateBits ==
  [][ret'.op = "update" =>
       /\ gpt'.status \cap {PROTECTIVE_MBR} = gpt.status \cap {PROTECTIVE_MBR}
       /\ \/ /\ ret'.err = GRUB_ERR_NONE
             /\ ValidBits \subseteq gpt'.status
          \/ /\ ret'.err = Err("BUG", "Generated invalid GPT primary header")
             /\ gpt'.status \cap ValidBits = {}
          \/ /\ ret'.err = Err("BUG", "Generated invalid GPT backup header")
             /\ gpt'.status \cap ValidBits = PrimaryBits]_vars

\* An update of a handle whose primary passes and whose backup does not: it
\* failed and left only the primary's bits.
C13_Witness ==
  /\ ret.op = "update"
  /\ ret.err = Err("BUG", "Generated invalid GPT backup header")
  /\ gpt.status \cap ValidBits = PrimaryBits
  /\ ~IsErr(grub_gpt_check_primary(gpt))
  /\ IsErr(grub_gpt_check_backup(gpt))

\* C14: for every handle returned by read, a second update right after a
\* first one changes nothing (both headers with their headersize, crc32 and
\* partentry_crc32, the entry buffer, the status bits) and returns what the
\* first returned.
C14_UpdateIdempotent ==
  [][(ret.op = "update" /\ ret'.op = "update") =>
       /\ gpt' = gpt
       /\ ret'.err = ret.err
       /\ grub_errno' = grub_errno
       /\ error_stack' = error_stack]_vars

\* Two updates in a row of a handle that read returned with headers larger
\* than the header structure: the first update had rewritten the sizes and
\* the CRCs, the second found nothing to change.
C14_Witness ==
  /\ ret.op = "update"
  /\ ret.again
  /\ ret.err = GRUB_ERR_NONE
  /\ writes = 0
  /\ AsHeader(disk.sectors[2]).headersize > HeaderStructSize
  /\ gpt.primary.headersize = HeaderStructSize
  /\ gpt.primary.crc32 # AsHeader(disk.sectors[2]).crc32
  /\ grub_gpt_update(gpt, NoError).gpt = gpt
  /\ ValidBits \subseteq gpt.status

\* The handle held was written to an empty medium, with all four valid bits
\* set, by a write during which neither the device failed nor the process
\* stopped.
WrittenToEmpty ==
  /\ ret.op = "write"
  /\ ret.blank
  /\ ~ret.cut
  /\ gpt # NULL
  /\ ValidBits \subseteq gpt.status

\* The handle read back is complete and equal to the one written.
ReadsBackEqual ==
  /\ gpt' # NULL
  /\ ValidBits \subseteq gpt'.status
  /\ gpt'.primary = gpt.primary
  /\ gpt'.backup = gpt.backup
  /\ gpt'.entries = gpt.entries
  /\ gpt'.entries_size = gpt.entries_size

PowerOfTwo(n) == \E k \in 0..24 : n = Pow2(k)

\* The conditions under which C16 has a header rejected.
C16_Rejected(h, log_sector_size) ==
  \/ h.magic # <<69, 70, 73, 32, 80, 65, 82, 84>>
  \/ h.version # 65536
  \/ h.crc32 # grub_gpt_lecrc32(HeaderWords([h EXCEPT !.crc32 = 0]))
  \/ h.headersize < 92
  \/ h.headersize > Pow2(log_sector_size)
  \/ h.partentry_size < 128
  \/ h.partentry_size % 128 # 0
  \/ ~PowerOfTwo(h.partentry_size \div 128)
  \/ h.maxpart * h.partentry_size < 16384
  \/ h.start > h.end

\* C16: header_check returns BAD_PART_TABLE if and only if the magic is not
\* "EFI PART", or the version is not 0x00010000, or the stored crc32 differs
\* from the CRC computed with the field zeroed, or headersize < 92 or > 1 <<
\* log_sector_size, or partentry_size is < 128, not a multiple of 128 or not
\* 128 times a power of two, or maxpart x partentry_size < 16384, or
\* first_usable > last_usable; it returns success otherwise, and leaves the
\* header with its crc32 field unchanged.
C16_HeaderCheck ==
  ret.op = "header_check" =>
    /\ ret.err.code \in {"BAD_PART_TABLE", "NONE"}
    /\ ret.err.code = "BAD_PART_TABLE"
         <=> C16_Rejected(ret.header, disk.log_sector_size)
    /\ ret.after = ret.header
    /\ grub_errno = ret.err

\* A header that fails only in its entry size, three times 128, was
\* rejected for it.
C16_Witness ==
  /\ ret.op = "header_check"
  /\ ret.header.partentry_size = 384
  /\ ret.header.headersize = Pow2(disk.log_sector_size)
  /\ ret.header.maxpart * ret.header.partentry_size >= 16384
  /\ ret.header.start <= ret.header.end
  /\ ret.header.crc32 = grub_gpt_header_lecrc32(ret.header)
  /\ ret.err = BadPartTable("invalid GPT entry size")

\* The MBR has the signature 0xAA55 and a 0xEE among its four entries.
FourEntriesProtective(mbr) ==
  /\ mbr.signature = 43605
  /\ \E i \in 1..4 : mbr.types[i] = 238

\* C17: pmbr_check succeeds if and only if the MBR signature is 0xAA55 and
\* at least one of its four entries has type 0xEE, no other entry being
\* examined; in read a failing check leaves PROTECTIVE_MBR clear, raises no
\* error and does not keep the primary and the backup from being read.
C17_PmbrFourEntries ==
  ret.op = "read" =>
    /\ PROTECTIVE_MBR \in ret.status
         <=> FourEntriesProtective(AsMbr(disk.sectors[1]))
    /\ PROTECTIVE_MBR \notin ret.status =>
         /\ ret.err.msg \notin {"invalid MBR signature",
                                "invalid protective MBR"}
         /\ ret.perr = grub_gpt_read_primary(disk, BlankHandle(disk)).err

\* A read of a medium whose MBR has the signature and no 0xEE among its four
\* entries: the check went on past them, found the type there, and the
\* handle says the MBR is protective.
C17_Witness ==
  /\ ret.op = "read"
  /\ gpt # NULL
  /\ gpt.mbr.signature = GRUB_PC_PARTITION_SIGNATURE
  /\ \A i \in 1..4 : gpt.mbr.types[i] # GRUB_PC_PARTITION_TYPE_GPT_DISK
  /\ PROTECTIVE_MBR \in gpt.status
  /\ ValidBits \subseteq gpt.status

\* C18: in read, the backup header is read from primary.alternate_lba if the
\* primary header validated, else from total_sectors - 1 if the size is
\* known; when the primary did not validate and the size is unknown, or the
\* primary validated, the size is known and primary.alternate_lba >=
\* total_sectors, the backup attempt fails with OUT_OF_RANGE and no backup
\* sector is read; BACKUP_HEADER_VALID is set only if the backup header's
\* header_lba is the sector it was read from.
C18_BackupSector ==
  ret.op = "read" =>
    /\ IF PRIMARY_HEADER_VALID \in ret.status
       THEN IF /\ grub_gpt_disk_size_valid(disk)
               /\ AsHeader(disk.sectors[2]).alternate_lba
                    >= total_sectors(disk)
            THEN ret.bsector = NoSector /\ ret.berr.code = "OUT_OF_RANGE"
            ELSE ret.bsector = AsHeader(disk.sectors[2]).alternate_lba
       ELSE IF grub_gpt_disk_size_valid(disk)
            THEN ret.bsector = total_sectors(disk) - 1
            ELSE ret.bsector = NoSector /\ ret.berr.code = "OUT_OF_RANGE"
    /\ BACKUP_HEADER_VALID \in ret.status =>
         /\ ret.bsector # NoSector
         /\ ret.bsector < total_sectors(disk)
         /\ AsHeader(disk.sectors[ret.bsector + 1]).header_lba = ret.bsector

\* A read of a grown medium of known size whose primary validated: the
\* backup header was read from primary.alternate_lba, which is no longer the
\* last sector, and was found valid there.
C18_Witness ==
  /\ ret.op = "read"
  /\ grown = 1
  /\ grub_gpt_disk_size_valid(disk)
  /\ PRIMARY_HEADER_VALID \in ret.status
  /\ BACKUP_HEADER_VALID \in ret.status
  /\ ret.bsector = AsHeader(disk.sectors[2]).alternate_lba
  /\ ret.bsector < total_sectors(disk) - 1
  /\ AsHeader(disk.sectors[ret.bsector + 1]).header_lba = ret.bsector

WritesAboveMbr ==
  ret.op = "write" =>
    \A i \in 1..Len(ret.log) :
      /\ ret.log[i].sector # 0
      /\ ret.log[i].kind = "entries" => ret.log[i].sector >= 2

\* The header get_partentry goes by: the primary if PRIMARY_HEADER_VALID is
\* set, else the backup.
Authoritative(g) ==
  IF PRIMARY_HEADER_VALID \in g.status THEN g.primary ELSE g.backup

HasValidHeader(g) ==
  PRIMARY_HEADER_VALID \in g.status \/ BACKUP_HEADER_VALID \in g.status

C21_BackupSkipped ==
  [][(ret'.op = "write" /\ ValidBits \subseteq gpt.status) =>
       IF /\ grub_gpt_disk_size_valid(disk)
          /\ gpt.backup.header_lba >= total_sectors(disk)
       THEN /\ \A i \in DOMAIN ret'.log : ret'.log[i].copy = "primary"
            /\ Len(ret'.log) >= 1
            /\ ret'.log[1].kind = "header"
            /\ ret'.log[1].sector = gpt.primary.header_lba
            /\ ~ret'.cut =>
                 /\ ret'.err = GRUB_ERR_NONE
                 /\ Len(ret'.log) = 2
                 /\ ret'.log[2].kind = "entries"
                 /\ ret'.log[2].sector = gpt.primary.partitions
                 /\ disk'.sectors[gpt.primary.header_lba + 1]
                      = HdrSector(gpt.primary)
                 /\ \A k \in 1..Len(gpt.entries) :
                      disk'.sectors[gpt.primary.partitions + k]
                        = EntSector(gpt.entries[k])
       ELSE gpt.backup.headersize = HeaderStructSize =>
              /\ Len(ret'.log) >= 1
              /\ ret'.log[1].copy = "backup"
              /\ ret'.log[1].kind = "header"
              /\ ret'.log[1].sector = gpt.backup.header_lba
              /\ BackupFirst(ret'.log)]_vars

\* A write to a medium of known size that ends before the backup header: the
\* primary header and entries were written, nothing else, and the write
\* returned success.
C21_Witness ==
  /\ ret.op = "write"
  /\ ret.err = GRUB_ERR_NONE
  /\ ~ret.cut
  /\ gpt # NULL
  /\ ValidBits \subseteq gpt.status
  /\ grub_gpt_disk_size_valid(disk)
  /\ gpt.backup.header_lba >= total_sectors(disk)
  /\ Len(ret.log) = 2
  /\ \A i \in DOMAIN ret.log : ret.log[i].copy = "primary"
  /\ disk.sectors[2] = HdrSector(gpt.primary)

\* The product of the two fields of an entry-array read, unbounded.
EntriesProduct == ret.header.maxpart * ret.header.partentry_size

C23_RefusedNeverWritten ==
  [][/\ (ret'.op \in {"update", "repair"} /\ IsErr(ret'.err)) =>
          /\ ret'.err.code \in {"BUG", "NOT_IMPLEMENTED_YET"}
          /\ gpt' # NULL
          /\ ~(ValidBits \subseteq gpt'.status)
     /\ (ret.op \in {"update", "repair"} /\ IsErr(ret.err)
           /\ ret'.op = "write") =>
          /\ ret'.err = BadPartTable("Invalid GPT data")
          /\ ret'.log = <<>>
          /\ disk' = disk
          /\ gpt' = gpt]_vars

\* A write that followed an update or a repair that returned an error: it was
\* refused with BAD_PART_TABLE and issued no disk write.
C23_Witness ==
  /\ ret.op = "write"
  /\ ret.refused
  /\ ret.err = BadPartTable("Invalid GPT data")
  /\ ret.log = <<>>
  /\ gpt # NULL
  /\ ~(ValidBits \subseteq gpt.status)

\* An entries bit of a status word has its header bit with it.
EntriesBitsUnderHeaderBits(status) ==
  /\ PRIMARY_ENTRIES_VALID \in status => PRIMARY_HEADER_VALID \in status
  /\ BACKUP_ENTRIES_VALID \in status => BACKUP_HEADER_VALID \in status

\* C24: in every state reached through read, repair and update, in the handle
\* and in the status a read ended with, PRIMARY_ENTRIES_VALID is set only if
\* PRIMARY_HEADER_VALID is set and BACKUP_ENTRIES_VALID is set only if
\* BACKUP_HEADER_VALID is set.
C24_EntriesOnlyWithHeader ==
  /\ gpt # NULL => EntriesBitsUnderHeaderBits(gpt.status)
  /\ ret.op = "read" => EntriesBitsUnderHeaderBits(ret.status)

\* A handle a read returned with a header bit set and its entries bit clear:
\* the backup header passed its checks, the backup's entries did not, and the
\* primary copy carries the handle.
C24_Witness ==
  /\ ret.op = "read"
  /\ gpt # NULL
  /\ gpt.status = ret.status
  /\ BACKUP_HEADER_VALID \in gpt.status
  /\ BACKUP_ENTRIES_VALID \notin gpt.status
  /\ PrimaryBits \subseteq gpt.status

====
